---- MODULE Spec2Model ----
(***************************************************************************)
(* Locale-routing middleware of next-intl: createMiddleware / middleware   *)
(* (middleware.tsx) and the path and domain helpers (utils.tsx).           *)
(*                                                                         *)
(* JavaScript strings that the code takes apart (pathnames, templates,     *)
(* locales, parameter values) are sequences of one-character strings, so   *)
(* that split, replace and the template regular expression are computed    *)
(* as the code computes them.  Host names are only ever compared, and are  *)
(* TLA+ strings.  An optional value is << >> (undefined) or <<v>>.         *)
(***************************************************************************)
EXTENDS Integers, Sequences, FiniteSets

VARIABLES phase, config, request, response, call, ret

vars == <<phase, config, request, response, call, ret>>

-----------------------------------------------------------------------------
(* Bounds of the model *)

\* Longest request pathname, in segments
MaxSegments == 2
\* Longest parameter value, in characters
MaxValueLen == 2
\* Longest list of candidate domains handed to getBestMatchingDomain
MaxDomains == 2

-----------------------------------------------------------------------------
(* JavaScript primitives used by the code *)

None == << >>
Some(x) == <<x>>

Min(S) == CHOOSE x \in S : \A y \in S : x <= y
Max(S) == CHOOSE x \in S : \A y \in S : x >= y

MinOrZero(S) == IF S = {} THEN 0 ELSE Min(S)

\* String.prototype.indexOf, 1-based; 0 when the pattern does not occur
IndexOf(s, p) ==
  MinOrZero({i \in 1..(Len(s) - Len(p) + 1) : SubSeq(s, i, i + Len(p) - 1) = p})

\* String.prototype.includes
Includes(s, p) == IndexOf(s, p) # 0

\* Array.prototype.includes
ArrayIncludes(arr, x) == \E i \in 1..Len(arr) : arr[i] = x

\* Array.prototype.find: the first element that satisfies P, as an optional
ElementAt(arr, i) == IF i = 0 THEN None ELSE Some(arr[i])
Find(arr, P(_)) == ElementAt(arr, MinOrZero({i \in 1..Len(arr) : P(arr[i])}))

\* The grave accent (U+0060) as one character of a string: a string literal
\* cannot hold it, so the character is named
Backtick == "U+0060"

\* GetSubstitution of String.prototype.replace for a string pattern (no
\* capture groups): $$ is $, $& the match, $ with a grave accent the text
\* before the match, $ with an apostrophe the text after it; any other $ is
\* literal
RECURSIVE GetSubstitution(_, _, _, _)
GetSubstitution(r, matched, before, after) ==
  IF r = << >> THEN << >>
  ELSE IF Head(r) = "$" /\ Len(r) >= 2 /\ r[2] \in {"$", "&", Backtick, "'"}
       THEN (CASE r[2] = "$" -> <<"$">>
               [] r[2] = "&" -> matched
               [] r[2] = Backtick -> before
               [] r[2] = "'" -> after)
            \o GetSubstitution(SubSeq(r, 3, Len(r)), matched, before, after)
       ELSE <<Head(r)>> \o GetSubstitution(Tail(r), matched, before, after)

\* String.prototype.replace(pattern: string, replacement: string): the first
\* occurrence only
ReplaceAt(s, p, r, i) ==
  IF i = 0 THEN s
  ELSE SubSeq(s, 1, i - 1)
         \o GetSubstitution(r, p, SubSeq(s, 1, i - 1), SubSeq(s, i + Len(p), Len(s)))
         \o SubSeq(s, i + Len(p), Len(s))

StringReplace(s, p, r) == ReplaceAt(s, p, r, IndexOf(s, p))

\* String.prototype.replace(/[[\]]/g, ''): every bracket removed
RECURSIVE StripBrackets(_)
StripBrackets(s) ==
  IF s = << >> THEN << >>
  ELSE (IF Head(s) \in {"[", "]"} THEN << >> ELSE <<Head(s)>>) \o StripBrackets(Tail(s))

Digits == <<"0", "1", "2", "3", "4", "5", "6", "7", "8", "9">>

\* Number::toString for a non-negative integer
RECURSIVE NumberToString(_)
NumberToString(n) ==
  IF n < 10 THEN <<Digits[n + 1]>>
  ELSE NumberToString(n \div 10) \o <<Digits[(n % 10) + 1]>>

\* A parameter value is a string or a number
StrVal(s) == [kind |-> "string", str |-> s, num |-> 0]
NumVal(n) == [kind |-> "number", str |-> << >>, num |-> n]

\* ToString(value), as String.prototype.replace applies it to its replacement
JsToString(v) == IF v.kind = "number" THEN NumberToString(v.num) ELSE v.str

-----------------------------------------------------------------------------
(* utils.tsx *)

\* pathname.split('/')[1]: undefined when the pathname holds no slash
\* s up to its first slash, or all of s
UpToSlash(s, j) == IF j = 0 THEN s ELSE SubSeq(s, 1, j - 1)
AfterSlash(s, i) ==
  IF i = 0 THEN None
  ELSE Some(UpToSlash(SubSeq(s, i + 1, Len(s)),
                      IndexOf(SubSeq(s, i + 1, Len(s)), <<"/">>)))

getLocaleFromPathname(pathname) == AfterSlash(pathname, IndexOf(pathname, <<"/">>))

KnownLocale(pathLocaleCandidate, locales) ==
  IF pathLocaleCandidate # None /\ ArrayIncludes(locales, pathLocaleCandidate[1])
  THEN pathLocaleCandidate
  ELSE None

getKnownLocaleFromPathname(pathname, locales) ==
  KnownLocale(getLocaleFromPathname(pathname), locales)

\* value || fallback for strings: the empty string is falsy
OrElse(value, fallback) == IF value = << >> THEN fallback ELSE value

getBasePath(pathname, pathLocale) ==
  OrElse(StringReplace(pathname, <<"/">> \o pathLocale, << >>), <<"/">>)

\* The matches of /\[([^\]]+)\]/g in a template, left to right: a match
\* starts at a "[" whose next "]" lies at least two characters further.
\* The result is the template cut into tokens: a literal character, or a
\* placeholder with its full text "[name]".
Lit(c) == [group |-> FALSE, text |-> <<c>>]
Group(t) == [group |-> TRUE, text |-> t]

RECURSIVE Tokens(_)
RECURSIVE TokensAt(_, _)
Tokens(template) ==
  IF template = << >> THEN << >>
  ELSE TokensAt(template, IndexOf(Tail(template), <<"]">>) + 1)

\* j: the position of the first "]" behind the head of the template
TokensAt(template, j) ==
  IF Head(template) = "[" /\ j >= 3
  THEN <<Group(SubSeq(template, 1, j))>> \o Tokens(SubSeq(template, j + 1, Len(template)))
  ELSE <<Lit(Head(template))>> \o Tokens(Tail(template))

RECURSIVE GroupTexts(_)
GroupTexts(toks) ==
  IF toks = << >> THEN << >>
  ELSE (IF Head(toks).group THEN <<Head(toks).text>> ELSE << >>) \o GroupTexts(Tail(toks))

\* template.match(/\[([^\]]+)\]/g): the placeholders' texts, in order
PlaceholderMatches(template) == GroupTexts(Tokens(template))

\* The regular expression of templateToRegex is ^...$ with every placeholder
\* replaced by ([^/]+); it is kept as the token list.  The literal text of
\* the templates of this model has no character that is special in a
\* regular expression.
templateToRegex(template) == Tokens(template)

\* Length of the longest prefix of s without a slash
RECURSIVE RunLength(_)
RunLength(s) ==
  IF s = << >> \/ Head(s) = "/" THEN 0 ELSE 1 + RunLength(Tail(s))

\* RegExp.prototype.exec of the anchored expression: None, or the capture
\* groups.  ([^/]+) is greedy: the longest run for which the rest matches.
RECURSIVE RegexExec(_, _)
RECURSIVE GroupExec(_, _, _)
RegexExec(regex, s) ==
  IF regex = << >> THEN (IF s = << >> THEN Some(<< >>) ELSE None)
  ELSE IF ~Head(regex).group
       THEN IF s # << >> /\ <<Head(s)>> = Head(regex).text
            THEN RegexExec(Tail(regex), Tail(s))
            ELSE None
       ELSE GroupExec(regex, s,
              {n \in 1..RunLength(s) :
                 RegexExec(Tail(regex), SubSeq(s, n + 1, Len(s))) # None})

\* ok: the lengths of the leading group for which the rest matches
GroupExec(regex, s, ok) ==
  IF ok = {} THEN None
  ELSE Some(<<SubSeq(s, 1, Max(ok))>>
            \o RegexExec(Tail(regex), SubSeq(s, Max(ok) + 1, Len(s)))[1])

matchesPathname(template, pathname) ==
  RegexExec(templateToRegex(template), pathname) # None

\* The params object is a function from its keys to its values
EmptyParams == [k \in {} |-> << >>]
SetParam(params, key, value) ==
  [k \in (DOMAIN params) \cup {key} |-> IF k = key THEN value ELSE params[k]]

\* if (key) params[key] = match[i]
AssignParam(params, key, value) ==
  IF key # << >> THEN SetParam(params, key, value) ELSE params

\* The loop of getRouteParams from capture group i on
RECURSIVE RouteParamsLoop(_, _, _, _)
RouteParamsLoop(i, groups, names, params) ==
  IF i > Len(groups) THEN params
  ELSE RouteParamsLoop(i + 1, groups, names,
                       AssignParam(params, StripBrackets(names[i]), groups[i]))

RouteParamsOf(match, names) ==
  IF match = None THEN None ELSE Some(RouteParamsLoop(1, match[1], names, EmptyParams))

getRouteParams(template, pathname) ==
  RouteParamsOf(RegexExec(templateToRegex(template), pathname),
                PlaceholderMatches(template))

\* The forEach of formatPathname over the entries still to come
RECURSIVE FormatLoop(_, _)
FormatLoop(result, entries) ==
  IF entries = << >> THEN result
  ELSE FormatLoop(StringReplace(result, <<"[">> \o Head(entries).key \o <<"]">>,
                                JsToString(Head(entries).value)),
                  Tail(entries))

\* params: an optional sequence of [key, value] entries, in the order of
\* Object.entries
formatPathname(template, params) ==
  IF params = None THEN template ELSE FormatLoop(template, params[1])

getPathWithSearch(pathname, search) ==
  IF search # << >> THEN pathname \o search ELSE pathname

\* requestHeaders.get('x-forwarded-host') ?? requestHeaders.get('host')
getHost(requestHeaders) ==
  IF requestHeaders.xForwardedHost # None THEN requestHeaders.xForwardedHost
  ELSE Some(requestHeaders.host)

\* isLocaleSupportedOnDomain that takes a missing locales list for an empty one
isLocaleSupportedOnDomain_NoListNoLocale(locale, domain) ==
  \/ domain.defaultLocale = locale
  \/ (domain.locales # None /\ ArrayIncludes(domain.locales[1], locale))

isLocaleSupportedOnDomain(locale, domain) ==
  \/ domain.defaultLocale = locale
  \/ domain.locales = None
  \/ ArrayIncludes(domain.locales[1], locale)

\* Each step of getBestMatchingDomain takes the domainConfig found so far
\* and keeps it, or looks for one when there is none yet
Prio1(curHostDomain, locale) ==
  IF curHostDomain # None /\ isLocaleSupportedOnDomain(locale, curHostDomain[1])
  THEN curHostDomain ELSE None

HasDefaultLocale(cur, locale) == cur.defaultLocale = locale
Prio2(domainConfig, locale, domainConfigs) ==
  IF domainConfig = None
  THEN Find(domainConfigs, LAMBDA cur : HasDefaultLocale(cur, locale))
  ELSE domainConfig

HasRestrictedLocale(cur, locale) ==
  cur.locales # None /\ ArrayIncludes(cur.locales[1], locale)
Prio3(domainConfig, locale, domainConfigs) ==
  IF domainConfig = None
  THEN Find(domainConfigs, LAMBDA cur : HasRestrictedLocale(cur, locale))
  ELSE domainConfig

\* curHostDomain?.locales == null also holds of an undefined curHostDomain
Prio4(domainConfig, curHostDomain) ==
  IF domainConfig = None /\ (curHostDomain = None \/ curHostDomain[1].locales = None)
  THEN curHostDomain ELSE domainConfig

Prio5(domainConfig, domainConfigs) ==
  IF domainConfig = None
  THEN Find(domainConfigs, LAMBDA cur : cur.locales = None)
  ELSE domainConfig

\* getBestMatchingDomain with the second and the third step in the other order
getBestMatchingDomain_ListedFirst(curHostDomain, locale, domainConfigs) ==
  Prio5(Prio4(Prio2(Prio3(Prio1(curHostDomain, locale), locale, domainConfigs),
                    locale, domainConfigs),
              curHostDomain),
        domainConfigs)

getBestMatchingDomain(curHostDomain, locale, domainConfigs) ==
  Prio5(Prio4(Prio3(Prio2(Prio1(curHostDomain, locale), locale, domainConfigs),
                    locale, domainConfigs),
              curHostDomain),
        domainConfigs)

-----------------------------------------------------------------------------
(* The request URL and the WHATWG URL operations the middleware uses *)

Url(host, pathname, search) == [host |-> host, pathname |-> pathname, search |-> search]

\* request.url: the request's own URL
RequestUrl(req) == Url(req.headers.host, req.pathname, req.search)

\* The directory of a pathname: up to and with its last slash
Directory(pathname) ==
  SubSeq(pathname, 1, Max({0} \cup {i \in 1..Len(pathname) : pathname[i] = "/"}))

\* A reference cut at its first "?" (q, 0 when it has none)
PathPart(url, q) == IF q = 0 THEN url ELSE SubSeq(url, 1, q - 1)
SearchPart(url, q) == IF q = 0 THEN << >> ELSE SubSeq(url, q, Len(url))

Resolve(pathPart, searchPart, base) ==
  IF pathPart = << >> THEN Url(base.host, base.pathname, searchPart)
  ELSE IF Head(pathPart) = "/" THEN Url(base.host, pathPart, searchPart)
  ELSE Url(base.host, Directory(base.pathname) \o pathPart, searchPart)

\* new URL(url, base) for the references the middleware builds: an absolute
\* path with an optional query, a bare query (the base's path is kept), the
\* empty reference (the base's path and query are kept) or a relative path
\* (merged with the base's directory).  No reference of this model starts
\* with two slashes or holds dot segments or a fragment.
NewURL(url, base) ==
  IF url = << >> THEN base
  ELSE Resolve(PathPart(url, IndexOf(url, <<"?">>)),
               SearchPart(url, IndexOf(url, <<"?">>)), base)

\* The pathname setter of URL: the path of an http(s) URL starts with a slash
SetPathname(urlObj, value) ==
  [urlObj EXCEPT !.pathname =
     IF value = << >> THEN <<"/">>
     ELSE IF Head(value) = "/" THEN value
     ELSE <<"/">> \o value]

\* if (host) urlObj.host = host
SetHost(urlObj, host) == IF host # None THEN [urlObj EXCEPT !.host = host[1]] ELSE urlObj

-----------------------------------------------------------------------------
(* middleware.tsx: configuration *)

ROOT_URL == <<"/">>

\* routing.type === 'domain': one restricted domain per routing entry
RoutingDomains(routing) ==
  [i \in 1..Len(routing.domains) |->
     [domain        |-> routing.domains[i].domain,
      defaultLocale |-> routing.domains[i].locale,
      locales       |-> Some(<<routing.domains[i].locale>>),
      locale        |-> None]]

\* The deprecated domain.locale becomes defaultLocale and the only locale
MigrateDomain(cur) ==
  [cur EXCEPT !.defaultLocale = IF cur.locale # None THEN cur.locale[1]
                                ELSE cur.defaultLocale,
              !.locales = IF cur.locale # None THEN Some(<<cur.locale[1]>>)
                          ELSE cur.locales]

\* if (config.routing): lines 26-46
MigrateRouting(cfg) ==
  IF cfg.routing # None
  THEN [cfg EXCEPT
          !.routing = None,
          !.localePrefix = IF cfg.routing[1].type = "prefix" THEN cfg.routing[1].prefix
                           ELSE cfg.localePrefix,
          !.domains = IF cfg.routing[1].type = "domain"
                      THEN Some(RoutingDomains(cfg.routing[1]))
                      ELSE cfg.domains]
  ELSE cfg

\* if (config.domains): lines 48-63
MigrateDomains(cfg) ==
  IF cfg.domains # None
  THEN [cfg EXCEPT !.domains =
          Some([i \in 1..Len(cfg.domains[1]) |-> MigrateDomain(cfg.domains[1][i])])]
  ELSE cfg

handleConfigDeprecations(cfg) == MigrateDomains(MigrateRouting(cfg))

WithDefaults(c) ==
  [locales         |-> c.locales,
   defaultLocale   |-> c.defaultLocale,
   domains         |-> c.domains,
   pathnames       |-> c.pathnames,
   alternateLinks  |-> IF c.alternateLinks = None THEN TRUE ELSE c.alternateLinks[1],
   localePrefix    |-> IF c.localePrefix = None THEN "as-needed" ELSE c.localePrefix[1],
   localeDetection |-> IF c.localeDetection = None THEN TRUE ELSE c.localeDetection[1]]

receiveConfig(cfg) == WithDefaults(handleConfigDeprecations(cfg))

\* createMiddleware: the configuration with its defaults and the matcher, as
\* the returned request handler holds them
createMiddleware(cfg) ==
  [configWithDefaults |-> receiveConfig(cfg), matcher |-> cfg.matcher]

-----------------------------------------------------------------------------
(* Collaborators of the middleware: resolveLocale, LocalizedPathnames and  *)
(* getAlternateLinksHeaderValue                                            *)

HostIs(cur, host) == host # None /\ cur.domain = host[1]

\* The domain whose host is the request's
FindDomainFromHost(requestHeaders, domains) ==
  IF domains = None THEN None
  ELSE Find(domains[1], LAMBDA cur : HostIs(cur, getHost(requestHeaders)))

\* Path prefix, else cookie, else accept-language, else the default locale
LocaleFromSignals(cfg, req, pathLocale) ==
  IF pathLocale # None THEN pathLocale[1]
  ELSE IF req.cookie # None /\ ArrayIncludes(cfg.locales, req.cookie[1])
       THEN req.cookie[1]
  ELSE IF cfg.localeDetection /\ req.acceptLanguage # None
          /\ ArrayIncludes(cfg.locales, req.acceptLanguage[1])
       THEN req.acceptLanguage[1]
  ELSE cfg.defaultLocale

\* A candidate the matched domain does not support gives way to the domain's
\* default locale; for a candidate that is the pathname's own prefix the rule
\* is left open, and either the prefix or the domain's default is the outcome.
ResolveOnDomain(candidate, domain, fromPath) ==
  IF domain = None \/ isLocaleSupportedOnDomain(candidate, domain[1])
  THEN {[locale |-> candidate, domain |-> domain]}
  ELSE {[locale |-> domain[1].defaultLocale, domain |-> domain]}
       \cup (IF fromPath THEN {[locale |-> candidate, domain |-> domain]} ELSE {})

\* The outcomes of resolveLocale: the locale and the matched domain
resolveLocale(cfg, req) ==
  ResolveOnDomain(
    LocaleFromSignals(cfg, req, getKnownLocaleFromPathname(req.pathname, cfg.locales)),
    FindDomainFromHost(req.headers, cfg.domains),
    getKnownLocaleFromPathname(req.pathname, cfg.locales) # None)

\* A pathname without its known-locale prefix
WithoutLocale(pathname, pathLocale) ==
  IF pathLocale = None THEN pathname ELSE getBasePath(pathname, pathLocale[1])

PathnameWithoutLocale(req, cfg) ==
  WithoutLocale(req.pathname, getKnownLocaleFromPathname(req.pathname, cfg.locales))

\* The template of a pathnames entry for a locale
LocalizedTemplate(entry, locale) ==
  IF locale \in DOMAIN entry.localized THEN entry.localized[locale] ELSE entry.canonical

\* The params extracted by getRouteParams, as entries for formatPathname
ParamEntries(params, names) ==
  Some([i \in 1..Len(names) |->
          [key   |-> StripBrackets(names[i]),
           value |-> StrVal(params[1][StripBrackets(names[i])])]])

\* pathname, matched by the template from, written with the template to
Translate(from, to, pathname) ==
  formatPathname(to, ParamEntries(getRouteParams(from, pathname),
                                  PlaceholderMatches(from)))

IsCanonicalHit(entry, locale, pathname) ==
  /\ matchesPathname(entry.canonical, pathname)
  /\ LocalizedTemplate(entry, locale) # entry.canonical

RedirectPathnameOf(hit, locale, pathname, search) ==
  IF hit = None THEN None
  ELSE Some(getPathWithSearch(
              <<"/">> \o locale
                \o Translate(hit[1].canonical, LocalizedTemplate(hit[1], locale), pathname),
              search))

\* The request hit a canonical template for which the locale has another
\* public pathname: that pathname, with the params carried over
LocalizedRedirectFor(pathnames, locale, pathname, search) ==
  RedirectPathnameOf(
    Find(pathnames, LAMBDA entry : IsCanonicalHit(entry, locale, pathname)),
    locale, pathname, search)

getLocalizedRedirectPathname(req, locale, cfg) ==
  LocalizedRedirectFor(cfg.pathnames[1], locale, PathnameWithoutLocale(req, cfg),
                       req.search)

IsLocalizedHit(entry, locale, pathname) ==
  /\ LocalizedTemplate(entry, locale) # entry.canonical
  /\ matchesPathname(LocalizedTemplate(entry, locale), pathname)

RewritePathnameOf(hit, locale, pathname, search) ==
  IF hit = None THEN None
  ELSE Some(getPathWithSearch(
              Translate(LocalizedTemplate(hit[1], locale), hit[1].canonical, pathname),
              search))

LocalizedRewriteFor(pathnames, locale, pathname, search) ==
  RewritePathnameOf(
    Find(pathnames, LAMBDA entry : IsLocalizedHit(entry, locale, pathname)),
    locale, pathname, search)

\* The locale of the request's pathname, else the default locale
PathLocaleOrDefault(pathLocale, cfg) ==
  IF pathLocale = None THEN cfg.defaultLocale ELSE pathLocale[1]

\* The request hit the public pathname of its locale: the canonical pathname
\* it is served from
getLocalizedRewritePathname(req, cfg) ==
  LocalizedRewriteFor(
    cfg.pathnames[1],
    PathLocaleOrDefault(getKnownLocaleFromPathname(req.pathname, cfg.locales), cfg),
    PathnameWithoutLocale(req, cfg), req.search)

\* The Link header: one entry per supported locale and one x-default entry
getAlternateLinksHeaderValue(cfg, req) == Len(cfg.locales) + 1

-----------------------------------------------------------------------------
(* middleware.tsx: the request handler *)

\* const domainConfigs: lines 115-118
DomainConfigsFor(cfg, locale) ==
  IF cfg.domains = None THEN << >>
  ELSE SelectSeq(cfg.domains[1],
                 LAMBDA curDomain : isLocaleSupportedOnDomain(locale, curDomain))

\* What the handler derives from the resolved locale: lines 101-119
Context(handler, req, resolved) ==
  [config   |-> handler.configWithDefaults,
   request  |-> req,
   locale   |-> resolved.locale,
   domain   |-> resolved.domain,
   isRoot   |-> req.pathname = ROOT_URL,
   hasOutdatedCookie |-> req.cookie # Some(resolved.locale),
   hasMatchedDefaultLocale |->
     IF resolved.domain # None THEN resolved.domain[1].defaultLocale = resolved.locale
     ELSE resolved.locale = handler.configWithDefaults.defaultLocale,
   domainConfigs |-> DomainConfigsFor(handler.configWithDefaults, resolved.locale),
   hasUnknownHost |-> handler.configWithDefaults.domains # None /\ resolved.domain = None]

\* The responses of the handler: the decision, its target URL, the locale
\* header injected into the forwarded request, the cookie, the Link header
\* and (on record) the locale and domain the request resolved to
Response(kind, url, headerLocale) ==
  [kind |-> kind, url |-> url, headerLocale |-> headerLocale,
   setCookie |-> None, link |-> 0, resolved |-> None]

getResponseInit(ctx) == IF ctx.hasOutdatedCookie THEN Some(ctx.locale) ELSE None

rewrite(ctx, url) ==
  Response("rewrite", NewURL(url, RequestUrl(ctx.request)), getResponseInit(ctx))

next(ctx) == Response("next", RequestUrl(ctx.request), getResponseInit(ctx))

\* Lines 160-165: the prefix is dropped for the default locale of the domain
StripForDomain(ctx, urlObj, bestMatchingDomain) ==
  IF bestMatchingDomain[1].defaultLocale = ctx.locale
     /\ ctx.config.localePrefix = "as-needed"
  THEN SetPathname(urlObj, StringReplace(urlObj.pathname, <<"/">> \o ctx.locale, << >>))
  ELSE urlObj

\* Lines 149-172
RedirectUrl(ctx, urlObj, host, bestMatchingDomain) ==
  IF Len(ctx.domainConfigs) > 0 /\ host = None /\ bestMatchingDomain # None
  THEN SetHost(StripForDomain(ctx, urlObj, bestMatchingDomain),
               Some(bestMatchingDomain[1].domain))
  ELSE SetHost(urlObj, host)

redirect(ctx, url, host) ==
  Response("redirect",
           RedirectUrl(ctx, NewURL(url, RequestUrl(ctx.request)), host,
                       getBestMatchingDomain(ctx.domain, ctx.locale, ctx.domainConfigs)),
           None)

\* The call the handler assigns to response: rewrite(url), redirect(url, host)
\* or next()
CallRewrite(url) == [fn |-> "rewrite", url |-> url, host |-> None]
CallRedirect(url, host) == [fn |-> "redirect", url |-> url, host |-> host]
CallNext == [fn |-> "next", url |-> << >>, host |-> None]

\* RootCall without the test for as-needed: the default locale is rewritten
\* under every policy
RootCall_AnyPolicy(ctx, pathWithSearch) ==
  IF ctx.config.localePrefix = "never" \/ ctx.hasMatchedDefaultLocale
  THEN CallRewrite(pathWithSearch)
  ELSE CallRedirect(pathWithSearch, None)

\* Lines 185-193
RootCall(ctx, pathWithSearch) ==
  IF \/ ctx.config.localePrefix = "never"
     \/ (ctx.hasMatchedDefaultLocale /\ ctx.config.localePrefix = "as-needed")
  THEN CallRewrite(pathWithSearch)
  ELSE CallRedirect(pathWithSearch, None)

\* Lines 201-211
LocalizedCallOf(localizedRedirect, localizedRewrite) ==
  IF localizedRedirect # None THEN Some(CallRedirect(localizedRedirect[1], None))
  ELSE IF localizedRewrite # None THEN Some(CallRewrite(localizedRewrite[1]))
  ELSE None

\* Lines 195-212: the call of a localized-pathname rule, if one fires
LocalizedCall(ctx) ==
  IF ctx.config.pathnames = None THEN None
  ELSE LocalizedCallOf(getLocalizedRedirectPathname(ctx.request, ctx.locale, ctx.config),
                       getLocalizedRewritePathname(ctx.request, ctx.config))

\* domain?.domain
DomainName(d) == IF d = None THEN None ELSE Some(d[1].domain)

\* Lines 237-251: the prefix is the resolved locale and stays
SameLocaleCall(ctx, basePath, pathDomain) ==
  IF ctx.config.domains # None
     /\ DomainName(ctx.domain) # DomainName(pathDomain)
     /\ ~ctx.hasUnknownHost
  THEN CallRedirect(basePath, DomainName(pathDomain))
  ELSE CallNext

\* PrefixedCall that redirects a foreign prefix to the bare base path
PrefixedCall_NoReprefix(ctx, pathLocale, basePath) ==
  IF ctx.config.localePrefix = "never" THEN CallRedirect(basePath, None)
  ELSE IF pathLocale = ctx.locale
       THEN IF ctx.hasMatchedDefaultLocale /\ ctx.config.localePrefix = "as-needed"
            THEN CallRedirect(basePath, None)
            ELSE SameLocaleCall(ctx, basePath,
                   getBestMatchingDomain(ctx.domain, pathLocale, ctx.domainConfigs))
       ELSE CallRedirect(basePath, None)

\* Lines 226-255: the pathname carries the prefix of a known locale
PrefixedCall(ctx, pathLocale, basePath) ==
  IF ctx.config.localePrefix = "never" THEN CallRedirect(basePath, None)
  ELSE IF pathLocale = ctx.locale
       THEN IF ctx.hasMatchedDefaultLocale /\ ctx.config.localePrefix = "as-needed"
            THEN CallRedirect(basePath, None)
            ELSE SameLocaleCall(ctx, basePath,
                   getBestMatchingDomain(ctx.domain, pathLocale, ctx.domainConfigs))
       ELSE CallRedirect(<<"/">> \o ctx.locale \o basePath, None)

\* UnprefixedCall with the test read as: as-needed and (default or domains)
UnprefixedCall_PolicyFirst(ctx, pathWithSearch) ==
  IF \/ ctx.config.localePrefix = "never"
     \/ (ctx.config.localePrefix = "as-needed"
         /\ (ctx.hasMatchedDefaultLocale \/ ctx.config.domains # None))
  THEN CallRewrite(<<"/">> \o ctx.locale \o pathWithSearch)
  ELSE CallRedirect(<<"/">> \o ctx.locale \o pathWithSearch, None)

\* Lines 257-266: the pathname carries no known-locale prefix
UnprefixedCall(ctx, pathWithSearch) ==
  IF \/ ctx.config.localePrefix = "never"
     \/ (ctx.hasMatchedDefaultLocale
         /\ (ctx.config.localePrefix = "as-needed" \/ ctx.config.domains # None))
  THEN CallRewrite(<<"/">> \o ctx.locale \o pathWithSearch)
  ELSE CallRedirect(<<"/">> \o ctx.locale \o pathWithSearch, None)

\* Lines 219-267
PrefixCall(ctx, pathLocale, pathWithSearch) ==
  IF pathLocale # None
  THEN PrefixedCall(ctx, pathLocale[1], getBasePath(pathWithSearch, pathLocale[1]))
  ELSE UnprefixedCall(ctx, pathWithSearch)

\* Lines 214-268: the generic prefix logic
GenericCall(ctx) ==
  PrefixCall(ctx,
             getKnownLocaleFromPathname(ctx.request.pathname, ctx.config.locales),
             getPathWithSearch(ctx.request.pathname, ctx.request.search))

\* if (!response): line 214
NonRootCall(ctx, localized) ==
  IF localized # None THEN localized[1] ELSE GenericCall(ctx)

\* Lines 179-269: the call that yields the response
ResponseCall(ctx) ==
  IF ctx.isRoot
  THEN RootCall(ctx, getPathWithSearch(<<"/">> \o ctx.locale, ctx.request.search))
  ELSE NonRootCall(ctx, LocalizedCall(ctx))

Perform(ctx, c) ==
  IF c.fn = "rewrite" THEN rewrite(ctx, c.url)
  ELSE IF c.fn = "redirect" THEN redirect(ctx, c.url, c.host)
  ELSE next(ctx)

\* PostProcess that leaves the cookie off a redirect
PostProcess_NoCookieOnRedirect(ctx, resp) ==
  [resp EXCEPT
     !.setCookie = IF ctx.hasOutdatedCookie /\ resp.kind # "redirect"
                   THEN Some([value |-> ctx.locale, sameSite |-> "strict"])
                   ELSE None,
     !.link = IF /\ ctx.config.localePrefix # "never"
                 /\ ctx.config.alternateLinks
                 /\ Len(ctx.config.locales) > 1
              THEN getAlternateLinksHeaderValue(ctx.config, ctx.request)
              ELSE 0,
     !.resolved = Some([locale |-> ctx.locale, domain |-> ctx.domain])]

\* Lines 271-286: the cookie and the Link header
PostProcess(ctx, resp) ==
  [resp EXCEPT
     !.setCookie = IF ctx.hasOutdatedCookie
                   THEN Some([value |-> ctx.locale, sameSite |-> "strict"])
                   ELSE None,
     !.link = IF /\ ctx.config.localePrefix # "never"
                 /\ ctx.config.alternateLinks
                 /\ Len(ctx.config.locales) > 1
              THEN getAlternateLinksHeaderValue(ctx.config, ctx.request)
              ELSE 0,
     !.resolved = Some([locale |-> ctx.locale, domain |-> ctx.domain])]

\* request.nextUrl.pathname.match(pattern) for some pattern of the matcher;
\* the patterns of this model are literal text
MatcherMatches(handler, req) ==
  \/ handler.matcher = None
  \/ \E i \in 1..Len(handler.matcher[1]) : Includes(req.pathname, handler.matcher[1][i])

\* Lines 101-288, with the context of lines 101-119
Handle(ctx) == PostProcess(ctx, Perform(ctx, ResponseCall(ctx)))

\* The handler returned by createMiddleware, for one outcome of resolveLocale
middleware(handler, req, resolved) ==
  IF ~MatcherMatches(handler, req)
  THEN Response("next", RequestUrl(req), None)
  ELSE Handle(Context(handler, req, resolved))

-----------------------------------------------------------------------------
(* Configurations and requests of the model *)

EN == <<"e", "n">>
DE == <<"d", "e">>
FR == <<"f", "r">>
ENTERPRISE == <<"e", "n", "t", "e", "r", "p", "r", "i", "s", "e">>
XX == <<"x">>

Segments == {EN, DE, ENTERPRISE, XX}

\* The pathnames of exactly n segments
RECURSIVE PathsOf(_)
PathsOf(n) ==
  IF n = 0 THEN {<< >>}
  ELSE {p \o <<"/">> \o seg : p \in PathsOf(n - 1), seg \in Segments}

Pathnames == {ROOT_URL} \cup UNION {PathsOf(n) : n \in 1..MaxSegments}

Searches == {<< >>, <<"?", "x", "=", "1">>}

HeaderSets ==
  {[xForwardedHost |-> None, host |-> h] : h \in {"a.com", "b.com", "c.com"}}
    \cup {[xForwardedHost |-> Some("b.com"), host |-> "c.com"]}

Requests ==
  [pathname : Pathnames, search : Searches, headers : HeaderSets,
   cookie : {None, Some(EN), Some(DE)}, acceptLanguage : {None, Some(DE)}]

DomainA     == [domain |-> "a.com", defaultLocale |-> EN, locales |-> None, locale |-> None]
DomainAOnly == [domain |-> "a.com", defaultLocale |-> EN, locales |-> Some(<<EN>>),
                locale |-> None]
DomainB     == [domain |-> "b.com", defaultLocale |-> DE, locales |-> Some(<<DE>>),
                locale |-> None]
DomainBOld  == [domain |-> "b.com", defaultLocale |-> EN, locales |-> None,
                locale |-> Some(DE)]
DomainBad   == [domain |-> "b.com", defaultLocale |-> FR, locales |-> None, locale |-> None]

BaseConfig ==
  [locales |-> <<EN, DE>>, defaultLocale |-> EN, localePrefix |-> None,
   domains |-> None, alternateLinks |-> None, localeDetection |-> None,
   routing |-> None, pathnames |-> None, matcher |-> None]

PathnamesMap ==
  <<[canonical |-> <<"/">> \o XX,
     localized |-> [l \in {DE} |-> <<"/">> \o ENTERPRISE]]>>

\* The configurations createMiddleware is called with
RawConfigs ==
  {[BaseConfig EXCEPT !.localePrefix = p, !.defaultLocale = d, !.domains = ds] :
      p \in {None, Some("as-needed"), Some("always"), Some("never")},
      d \in {EN, DE},
      ds \in {None, Some(<<DomainA, DomainB>>), Some(<<DomainAOnly, DomainB>>),
              Some(<<DomainA, DomainBOld>>)}}
  \cup {[BaseConfig EXCEPT !.routing = Some(r)] :
          r \in {[type |-> "prefix", prefix |-> Some("always"), domains |-> << >>],
                 [type |-> "domain", prefix |-> None,
                  domains |-> <<[domain |-> "a.com", locale |-> EN],
                                [domain |-> "b.com", locale |-> DE]>>]}}
  \cup {[BaseConfig EXCEPT !.alternateLinks = Some(FALSE)],
        [BaseConfig EXCEPT !.localeDetection = Some(FALSE)],
        [BaseConfig EXCEPT !.matcher = Some(<<<<"/">> \o XX>>)],
        [BaseConfig EXCEPT !.pathnames = Some(PathnamesMap)],
        [BaseConfig EXCEPT !.pathnames = Some(PathnamesMap),
                           !.localePrefix = Some("always")],
        [BaseConfig EXCEPT !.defaultLocale = FR],
        [BaseConfig EXCEPT !.domains = Some(<<DomainA, DomainBad>>)]}

-----------------------------------------------------------------------------
(* The middleware as a state machine: createMiddleware once, then one      *)
(* request at a time; nothing of a request outlives its response.          *)

Init ==
  /\ phase = "setup"
  /\ config = None
  /\ request = None
  /\ response = None
  /\ call = None
  /\ ret = None

CreateMiddleware ==
  /\ phase = "setup"
  /\ \E cfg \in RawConfigs : config' = Some(createMiddleware(cfg))
  /\ phase' = "ready"
  /\ UNCHANGED <<request, response, call, ret>>

Middleware ==
  /\ phase = "ready"
  /\ \E req \in Requests :
       \E resolved \in resolveLocale(config[1].configWithDefaults, req) :
         /\ request' = Some(req)
         /\ response' = Some(middleware(config[1], req, resolved))
  /\ phase' = "responded"
  /\ UNCHANGED <<config, call, ret>>

Respond ==
  /\ phase = "responded"
  /\ phase' = "ready"
  /\ request' = None
  /\ response' = None
  /\ UNCHANGED <<config, call, ret>>

Next == CreateMiddleware \/ Middleware \/ Respond

Spec == Init /\ [][Next]_vars

-----------------------------------------------------------------------------
(* The helpers of utils.tsx called on their own: a call is drawn, then     *)
(* applied; the pathname formatPathname built is what getRouteParams is    *)
(* then handed, with the same template.                                    *)

\* Sequences over S of length at most n
RECURSIVE SeqsUpTo(_, _)
SeqsUpTo(S, n) ==
  IF n = 0 THEN {<< >>}
  ELSE LET shorter == SeqsUpTo(S, n - 1)
       IN  shorter \cup {Append(q, x) : q \in shorter, x \in S}

DomainPool ==
  {[domain |-> d, defaultLocale |-> l, locales |-> ls, locale |-> None] :
     d \in {"a.com", "b.com"}, l \in {EN, DE}, ls \in {None, Some(<<EN>>), Some(<<DE>>)}}

DomainCalls ==
  [op : {"getBestMatchingDomain"},
   curHostDomain : {None} \cup {Some(d) : d \in DomainPool},
   locale : {EN, DE, FR},
   domainConfigs : SeqsUpTo(DomainPool, MaxDomains)]

KeyA == <<"a">>
KeyB == <<"b">>
Placeholder(key) == <<"[">> \o key \o <<"]">>

Templates ==
  {<<"/">> \o XX,
   <<"/">> \o Placeholder(KeyA),
   <<"/">> \o Placeholder(KeyA) \o <<"-">> \o Placeholder(KeyB),
   <<"/">> \o Placeholder(KeyA) \o <<"/">> \o Placeholder(KeyB),
   <<"/">> \o Placeholder(KeyA) \o Placeholder(KeyB),
   <<"/">> \o Placeholder(KeyA) \o <<"/">> \o Placeholder(KeyA),
   <<"/">> \o Placeholder(KeyA) \o <<"-", "x", "-">> \o Placeholder(KeyB)}

ValueChars == {"x", "-", "$"}

\* Values that hold a replacement pattern of String.prototype.replace
PatternValues ==
  {StrVal(<<"$", c>>) : c \in {"&", Backtick, "'"}}

ParamValues ==
  {StrVal(v) : v \in SeqsUpTo(ValueChars, MaxValueLen)}
    \cup PatternValues \cup {NumVal(3), NumVal(12)}

\* The params objects: undefined, or entries with distinct keys in either order
ParamsObjects ==
  {None, Some(<< >>)}
  \cup {Some(<<[key |-> k, value |-> v]>>) : k \in {KeyA, KeyB}, v \in ParamValues}
  \cup {Some(<<[key |-> ks[1], value |-> v1], [key |-> ks[2], value |-> v2]>>) :
          ks \in {<<KeyA, KeyB>>, <<KeyB, KeyA>>},
          v1 \in ParamValues, v2 \in ParamValues}

FormatCalls == [op : {"formatPathname"}, template : Templates, params : ParamsObjects]

InitUtils ==
  /\ phase = "utils"
  /\ config = None
  /\ request = None
  /\ response = None
  /\ call \in {Some(c) : c \in DomainCalls \cup FormatCalls}
  /\ ret = None

ApplyGetBestMatchingDomain ==
  /\ call # None /\ call[1].op = "getBestMatchingDomain" /\ ret = None
  /\ ret' = Some(getBestMatchingDomain(call[1].curHostDomain, call[1].locale,
                                       call[1].domainConfigs))
  /\ UNCHANGED <<phase, config, request, response, call>>

ApplyFormatPathname ==
  /\ call # None /\ call[1].op = "formatPathname" /\ ret = None
  /\ ret' = Some(formatPathname(call[1].template, call[1].params))
  /\ UNCHANGED <<phase, config, request, response, call>>

\* getRouteParams on the pathname that formatPathname returned; the params
\* it was built from stay on record
ApplyGetRouteParams ==
  /\ call # None /\ call[1].op = "formatPathname" /\ ret # None
  /\ call' = Some([op |-> "getRouteParams", template |-> call[1].template,
                   pathname |-> ret[1], params |-> call[1].params])
  /\ ret' = Some(getRouteParams(call[1].template, ret[1]))
  /\ UNCHANGED <<phase, config, request, response>>

NextUtils == ApplyGetBestMatchingDomain \/ ApplyFormatPathname \/ ApplyGetRouteParams

SpecUtils == InitUtils /\ [][NextUtils]_vars

-----------------------------------------------------------------------------
(* Vocabulary of the properties *)

Req  == request[1]
Resp == response[1]
Cfg  == config[1].configWithDefaults

\* A request the handler resolved a locale for and routed
Routed == phase = "responded" /\ Resp.resolved # None

ResolvedLocale == Resp.resolved[1].locale
ResolvedDomain == Resp.resolved[1].domain

\* The matched domain's default locale, else the global one
ApplicableDefault ==
  IF ResolvedDomain # None THEN ResolvedDomain[1].defaultLocale ELSE Cfg.defaultLocale

DomainsConfigured == Cfg.domains # None

\* The first segment of the request pathname
FirstSegment == getLocaleFromPathname(Req.pathname)[1]

HasLocalePrefix ==
  Req.pathname # ROOT_URL /\ \E i \in 1..Len(Cfg.locales) : Cfg.locales[i] = FirstSegment

\* The request pathname behind its first segment
Remainder == SubSeq(Req.pathname, Len(FirstSegment) + 2, Len(Req.pathname))
RemainderOrRoot == IF Remainder = << >> THEN <<"/">> ELSE Remainder

\* The configured domains whose default locale is the resolved locale
DefaultDomains ==
  IF DomainsConfigured
  THEN {i \in 1..Len(Cfg.domains[1]) : Cfg.domains[1][i].defaultLocale = ResolvedLocale}
  ELSE {}

\* A redirect from a host that matches no domain, under as-needed, to the
\* domain that has the resolved locale as its default
ToDefaultDomain ==
  /\ Cfg.localePrefix = "as-needed"
  /\ ResolvedDomain = None
  /\ DefaultDomains # {}

NoLocalizedRule ==
  \/ Cfg.pathnames = None
  \/ /\ getLocalizedRedirectPathname(Req, ResolvedLocale, Cfg) = None
     /\ getLocalizedRewritePathname(Req, Cfg) = None

-----------------------------------------------------------------------------
(* C1: the root path *)

RootRewrites ==
  \/ Cfg.localePrefix = "never"
  \/ (Cfg.localePrefix = "as-needed" /\ ResolvedLocale = ApplicableDefault)

\* C1 as claimed: a request to the root path is rewritten to /<locale> under
\* never, or under as-needed with the applicable default resolved; otherwise
\* it is redirected, and the redirect path is /<locale> for every configuration.
C1_RootAlwaysToLocale ==
  (Routed /\ Req.pathname = ROOT_URL) =>
    /\ Resp.kind = (IF RootRewrites THEN "rewrite" ELSE "redirect")
    /\ Resp.url.pathname = <<"/">> \o ResolvedLocale

\* C1 as amended: the same choice between rewrite and redirect; the redirect
\* path is /<locale>, except that a redirect under as-needed from a host that
\* matches no configured domain goes to the first domain that has the
\* resolved locale as its default, and there to the path /.
C1_RootDecision ==
  (Routed /\ Req.pathname = ROOT_URL) =>
    /\ Resp.kind = (IF RootRewrites THEN "rewrite" ELSE "redirect")
    /\ Resp.url.search = Req.search
    /\ IF Resp.kind = "redirect" /\ ToDefaultDomain
       THEN /\ Resp.url.pathname = <<"/">>
            /\ Resp.url.host = Cfg.domains[1][Min(DefaultDomains)].domain
       ELSE Resp.url.pathname = <<"/">> \o ResolvedLocale

C1_Witness ==
  /\ Routed /\ Req.pathname = ROOT_URL
  /\ Cfg.localePrefix = "as-needed"
  /\ ResolvedLocale = DE /\ ResolvedDomain = None /\ DomainsConfigured
  /\ Resp.kind = "redirect"
  /\ Resp.url.pathname = <<"/">> /\ Resp.url.host = "b.com"

-----------------------------------------------------------------------------
(* C4: the locale cookie *)

\* C4: whenever the request's locale cookie differs from the resolved locale
\* (a missing cookie differs), the response sets the cookie to the resolved
\* locale with same-site strict, whatever the decision; when the cookie equals
\* the resolved locale, no cookie is set.
C4_StaleCookieIsSet ==
  Routed =>
    /\ Resp.kind \in {"rewrite", "redirect", "next"}
    /\ Resp.setCookie =
         (IF Req.cookie # Some(ResolvedLocale)
          THEN Some([value |-> ResolvedLocale, sameSite |-> "strict"])
          ELSE None)

\* A pass-through with the stale cookie en for the resolved locale de
C4_Witness ==
  /\ Routed /\ Resp.kind = "next"
  /\ Req.cookie = Some(EN) /\ ResolvedLocale = DE
  /\ Resp.setCookie = Some([value |-> DE, sameSite |-> "strict"])

-----------------------------------------------------------------------------
(* C6: configuration errors *)

WellFormed(cfg) ==
  /\ ArrayIncludes(cfg.locales, cfg.defaultLocale)
  /\ cfg.domains # None =>
       \A i \in 1..Len(cfg.domains[1]) :
         ArrayIncludes(cfg.locales, cfg.domains[1][i].defaultLocale)

\* C6: createMiddleware raises on a default locale (global, or of a domain)
\* outside the supported locales: no request handler ever holds such a
\* configuration.
C6_SetupFailsFast == config # None => WellFormed(Cfg)

-----------------------------------------------------------------------------
(* C8: a pathname without a locale prefix *)

Unprefixed ==
  Routed /\ Req.pathname # ROOT_URL /\ ~HasLocalePrefix /\ NoLocalizedRule

\* C8 as claimed: rewrite to /<locale><path> exactly when the policy is never,
\* or as-needed and (the applicable default resolved or domains are
\* configured); otherwise redirect to /<locale><path>.
C8_UnprefixedAsClaimed ==
  Unprefixed =>
    /\ Resp.kind =
         (IF \/ Cfg.localePrefix = "never"
             \/ /\ Cfg.localePrefix = "as-needed"
                /\ (ResolvedLocale = ApplicableDefault \/ DomainsConfigured)
          THEN "rewrite" ELSE "redirect")
    /\ Resp.url.pathname = <<"/">> \o ResolvedLocale \o Req.pathname

\* C8 as amended: rewrite to /<locale><path> exactly when the policy is never,
\* or the applicable default resolved and (the policy is as-needed or domains
\* are configured); otherwise redirect to /<locale><path>, except that a
\* redirect under as-needed from a host that matches no configured domain
\* goes to the first domain that has the resolved locale as its default, and
\* there to the path unchanged.
C8_UnprefixedDecision ==
  Unprefixed =>
    /\ Resp.kind =
         (IF \/ Cfg.localePrefix = "never"
             \/ /\ ResolvedLocale = ApplicableDefault
                /\ (Cfg.localePrefix = "as-needed" \/ DomainsConfigured)
          THEN "rewrite" ELSE "redirect")
    /\ Resp.url.search = Req.search
    /\ IF Resp.kind = "redirect" /\ ToDefaultDomain
       THEN /\ Resp.url.pathname = Req.pathname
            /\ Resp.url.host = Cfg.domains[1][Min(DefaultDomains)].domain
       ELSE Resp.url.pathname = <<"/">> \o ResolvedLocale \o Req.pathname

\* The default locale of the matched domain under always: a rewrite
C8_Witness ==
  /\ Unprefixed
  /\ Cfg.localePrefix = "always" /\ DomainsConfigured
  /\ ResolvedDomain # None /\ ResolvedLocale = ApplicableDefault
  /\ Resp.kind = "rewrite"
  /\ Resp.url.pathname = <<"/">> \o ResolvedLocale \o Req.pathname

-----------------------------------------------------------------------------
(* C9: the prefix of the default locale under as-needed *)

\* C9: a pathname prefixed with the resolved locale, which is the applicable
\* default, under as-needed: a redirect to the pathname without that one
\* leading segment, the rest unchanged (/ when nothing is left).
C9_DefaultPrefixStripped ==
  (/\ Routed /\ HasLocalePrefix /\ NoLocalizedRule
   /\ FirstSegment = ResolvedLocale
   /\ ResolvedLocale = ApplicableDefault
   /\ Cfg.localePrefix = "as-needed") =>
    /\ Resp.kind = "redirect"
    /\ Resp.url.pathname = RemainderOrRoot

-----------------------------------------------------------------------------
(* C10: a prefix that is not the resolved locale *)

OtherPrefix ==
  /\ Routed /\ HasLocalePrefix /\ NoLocalizedRule
  /\ FirstSegment # ResolvedLocale
  /\ Cfg.localePrefix # "never"

\* C10 as claimed: a redirect to /<resolved locale> followed by the pathname
\* without its locale prefix.
C10_ReprefixedAsClaimed ==
  OtherPrefix =>
    /\ Resp.kind = "redirect"
    /\ Resp.url.pathname = <<"/">> \o ResolvedLocale \o Remainder

\* C10 as amended: a redirect.  Under always its path is /<resolved locale>
\* followed by the pathname without its prefix (by / when nothing is left and
\* the request has no query).  Under as-needed, when the resolved locale is
\* the default of the matched domain, the path is the pathname without its
\* prefix (/ when nothing is left).
C10_ReprefixedDecision ==
  OtherPrefix =>
    /\ Resp.kind = "redirect"
    /\ Resp.url.search = Req.search
    /\ Cfg.localePrefix = "always" =>
         Resp.url.pathname =
           <<"/">> \o ResolvedLocale
             \o (IF Req.search = << >> THEN RemainderOrRoot ELSE Remainder)
    /\ (/\ Cfg.localePrefix = "as-needed"
        /\ ResolvedDomain # None
        /\ ResolvedDomain[1].defaultLocale = ResolvedLocale) =>
         Resp.url.pathname = RemainderOrRoot

C10_Witness ==
  /\ OtherPrefix
  /\ Cfg.localePrefix = "always"
  /\ FirstSegment = DE /\ ResolvedLocale = EN
  /\ Remainder = <<"/">> \o ENTERPRISE
  /\ Resp.kind = "redirect"
  /\ Resp.url.pathname = <<"/">> \o EN \o <<"/">> \o ENTERPRISE

-----------------------------------------------------------------------------
(* C2, C3: getBestMatchingDomain *)

Call == call[1]

DomainCallDone ==
  call # None /\ Call.op = "getBestMatchingDomain" /\ ret # None

\* A domain supports a locale that is its default, or when it declares no
\* locales list, or when its list holds the locale
Supports(domain, locale) ==
  \/ domain.defaultLocale = locale
  \/ domain.locales = None
  \/ \E i \in 1..Len(domain.locales[1]) : domain.locales[1][i] = locale

IsDefaultOf(domain, locale) == domain.defaultLocale = locale
IsListedBy(domain, locale) ==
  domain.locales # None /\ \E i \in 1..Len(domain.locales[1]) : domain.locales[1][i] = locale
IsUnrestricted(domain, locale) == domain.locales = None

SomeCandidate(P(_, _)) ==
  \E i \in 1..Len(Call.domainConfigs) : P(Call.domainConfigs[i], Call.locale)

\* The result is the first candidate with the property, and is not the
\* current domain
IsFirstAlternate(P(_, _)) ==
  /\ ret[1] # Call.curHostDomain
  /\ \E i \in 1..Len(Call.domainConfigs) :
       /\ ret[1] = Some(Call.domainConfigs[i])
       /\ P(Call.domainConfigs[i], Call.locale)
       /\ \A j \in 1..(i - 1) : ~P(Call.domainConfigs[j], Call.locale)

\* C2: the result is the first hit of: the current domain if it supports the
\* locale; an alternate domain whose default is the locale; an alternate
\* domain whose locales list holds the locale; the current domain if it has
\* no locales list; an alternate domain without a locales list; and it is
\* undefined when none hits.
C2_PriorityOrder ==
  DomainCallDone =>
    IF Call.curHostDomain # None /\ Supports(Call.curHostDomain[1], Call.locale)
    THEN ret[1] = Call.curHostDomain
    ELSE IF SomeCandidate(IsDefaultOf) THEN IsFirstAlternate(IsDefaultOf)
    ELSE IF SomeCandidate(IsListedBy) THEN IsFirstAlternate(IsListedBy)
    ELSE IF Call.curHostDomain # None /\ Call.curHostDomain[1].locales = None
         THEN ret[1] = Call.curHostDomain
    ELSE IF SomeCandidate(IsUnrestricted) THEN IsFirstAlternate(IsUnrestricted)
    ELSE ret[1] = None

\* The second rule wins over the third: a domain that lists the locale comes
\* first, the one that has it as its default is returned
C2_Witness ==
  /\ DomainCallDone
  /\ Call.locale = DE
  /\ Call.curHostDomain # None /\ ~Supports(Call.curHostDomain[1], DE)
  /\ Len(Call.domainConfigs) = 2
  /\ IsListedBy(Call.domainConfigs[1], DE) /\ ~IsDefaultOf(Call.domainConfigs[1], DE)
  /\ IsDefaultOf(Call.domainConfigs[2], DE)
  /\ ret[1] = Some(Call.domainConfigs[2])

\* The call of C3: the domains a.com (default en) and b.com (default de,
\* locales [de]), the locale de, with the current domain cur
C3_Call(cur) ==
  /\ DomainCallDone
  /\ Call.domainConfigs = <<DomainA, DomainB>>
  /\ Call.locale = DE
  /\ Call.curHostDomain = cur

\* C3 as claimed: on a.com the best matching domain for de is b.com.
C3_SelectsOtherDomain == C3_Call(Some(DomainA)) => ret[1] = Some(DomainB)

\* C3 as amended: on a.com the best matching domain for de is a.com itself,
\* which declares no locales list and so supports de; b.com is the result
\* when the current domain is undefined.
C3_StaysOnCurrentDomain ==
  /\ C3_Call(Some(DomainA)) => ret[1] = Some(DomainA)
  /\ C3_Call(None) => ret[1] = Some(DomainB)

C3_Witness == C3_Call(Some(DomainA)) /\ ret[1] = Some(DomainA)

-----------------------------------------------------------------------------
(* C5, C7: formatPathname and getRouteParams *)

\* The names of a template's placeholders, left to right
Names(template) ==
  [i \in 1..Len(PlaceholderMatches(template)) |->
     StripBrackets(PlaceholderMatches(template)[i])]

DistinctNames(template) ==
  \A i, j \in 1..Len(Names(template)) :
    Names(template)[i] = Names(template)[j] => i = j

HasKey(params, key) ==
  params # None /\ \E i \in 1..Len(params[1]) : params[1][i].key = key

\* The string form of the value params gives a key
StringOf(params, key) ==
  JsToString(params[1][CHOOSE i \in 1..Len(params[1]) : params[1][i].key = key].value)

Chars(str) == {str[i] : i \in 1..Len(str)}

\* Every placeholder is given a non-empty value without a slash
Supplied(template, params) ==
  \A i \in 1..Len(Names(template)) :
    /\ HasKey(params, Names(template)[i])
    /\ StringOf(params, Names(template)[i]) # << >>
    /\ "/" \notin Chars(StringOf(params, Names(template)[i]))

\* The mapping from the placeholder names to the values' string forms
OriginalParams(template, params) ==
  [name \in {Names(template)[i] : i \in 1..Len(Names(template))} |->
     StringOf(params, name)]

RoundTripDone == call # None /\ Call.op = "getRouteParams" /\ ret # None

\* C5: for a template with distinct placeholders and params that
\* give each placeholder a non-empty value without a slash, getRouteParams
\* of the formatted pathname returns exactly the placeholder names, each
\* with the string form of its value.
C5_RoundTrip ==
  (/\ RoundTripDone
   /\ DistinctNames(Call.template)
   /\ Supplied(Call.template, Call.params)) =>
    ret[1] = Some(OriginalParams(Call.template, Call.params))

\* The template with every placeholder whose name is a key of params replaced
\* by the string form of its value, and every other placeholder left as it is
RECURSIVE Substituted(_, _)
Substituted(toks, params) ==
  IF toks = << >> THEN << >>
  ELSE (IF Head(toks).group /\ HasKey(params, StripBrackets(Head(toks).text))
        THEN StringOf(params, StripBrackets(Head(toks).text))
        ELSE Head(toks).text)
       \o Substituted(Tail(toks), params)

FormatDone == call # None /\ Call.op = "formatPathname" /\ ret # None

\* C7: formatPathname replaces every placeholder whose name is a key of
\* params by the string form of the value, leaves every other placeholder as
\* its literal text, and returns the template unchanged without params.
C7_LenientSubstitution ==
  FormatDone =>
    ret[1] = (IF Call.params = None THEN Call.template
              ELSE Substituted(Tokens(Call.template), Call.params))

-----------------------------------------------------------------------------
(* C11, C12: the query string and the redirect target *)

\* A rewrite or a redirect of the root branch or of the generic prefix logic
BuiltTarget ==
  /\ Routed
  /\ (Req.pathname = ROOT_URL \/ NoLocalizedRule)
  /\ Resp.kind \in {"rewrite", "redirect"}

\* The pathname is a locale prefix and nothing else, and the request has a
\* query
BarePrefixWithQuery ==
  HasLocalePrefix /\ Remainder = << >> /\ Req.search # << >>

\* The branches that send the pathname without its prefix: the policy never,
\* and the prefix of the resolved default locale under as-needed
PrefixStripped ==
  \/ Cfg.localePrefix = "never"
  \/ /\ Cfg.localePrefix = "as-needed"
     /\ FirstSegment = ResolvedLocale
     /\ ResolvedLocale = ApplicableDefault

\* C11: every rewrite or redirect target of the root branch and of the
\* generic prefix logic carries the request's query unchanged behind a path
\* that begins with a slash; for a pathname that is a locale prefix and
\* nothing else, with a query, the prefix-stripped target is / and the query.
C11_QueryKeptAfterPath ==
  BuiltTarget =>
    /\ Resp.url.search = Req.search
    /\ Resp.url.pathname # << >> /\ Head(Resp.url.pathname) = "/"
    /\ (BarePrefixWithQuery /\ PrefixStripped) =>
         (Resp.kind = "redirect" /\ Resp.url.pathname = <<"/">>)

\* C12: no request is redirected to itself: the target of a redirect (host,
\* path and query) differs from the URL of the request.
C12_NoSelfRedirect ==
  (Routed /\ Resp.kind = "redirect") => Resp.url # RequestUrl(Req)

====
